---------------------------- MODULE Spec2Model ----------------------------
(***************************************************************************)
(* Model of localize_texts.py: the Text("...") -> Text("key".localized)    *)
(* rewrite, the key slugifier and uniqueness resolver, and the             *)
(* Localizable.strings parse / append.                                     *)
(*                                                                         *)
(* Texts are sequences of code points.  An ASCII code point is the         *)
(* one-character string; a non-ASCII code point is written "U+XXXX" and    *)
(* still counts as ONE element of the sequence.                            *)
(***************************************************************************)
EXTENDS Integers, Sequences, FiniteSets, TLC

VARIABLES
    run,             \* 1: first invocation of main, 2: invocation on its output
    pc,              \* position in main()
    arg_dry_run,     \* args.dry_run
    arg_write_strings, \* args.write_strings
    strings_in,      \* content of the --strings file, or None
    src_files,       \* contents of the *.swift files of --src, in walk order
    out_files,       \* contents of the same files under --out (<<>> before copy)
    strings_out,     \* content of out/Localizable.strings, or None
    key_to_val,      \* parse_localizable: key -> value
    val_to_key,      \* parse_localizable: value -> first key
    existing_keys,   \* set of keys in use
    additions,       \* new key -> value
    fileIdx,         \* number of files the walk has taken
    content,         \* process_swift: the text being rewritten
    pos,             \* re.sub: scan position in content (1-based)
    new_content,     \* re.sub: output built so far / process_swift's result
    literal,         \* repl: decoded literal of the last occurrence handled
    key,             \* repl: key of the last occurrence rewritten
    branch,          \* repl: "skip" | "reuse" | "mint" for the last occurrence
    slug_in,         \* slugify_key: argument
    slug_key,        \* slugify_key: result
    slug_pc,         \* "build" | "done"
    uq_base,         \* generate_unique_key: base
    uq_keys,         \* generate_unique_key: existing_keys
    uq_key,          \* generate_unique_key: result
    uq_pc            \* "build" | "done"

mainVars == <<run, pc, arg_dry_run, arg_write_strings, strings_in, src_files,
              out_files, strings_out, key_to_val, val_to_key, existing_keys,
              additions, fileIdx, content, pos, new_content, literal, key, branch>>
slugVars == <<slug_in, slug_key, slug_pc>>
uqVars == <<uq_base, uq_keys, uq_key, uq_pc>>
vars == <<mainVars, slugVars, uqVars>>

---------------------------------------------------------------------------
(* Bounds of the model and constants of the program *)

MaxFiles == 2
MaxFree == 2
MaxBlocks == 7
MaxSuffix == 10
MaxKeyLen == 60

---------------------------------------------------------------------------
(* Characters *)

Quote == "\""
Backslash == "\\"
LF == "\n"
None == <<"None">>

UpperCase == <<"A","B","C","D","E","F","G","H","I","J","K","L","M",
               "N","O","P","Q","R","S","T","U","V","W","X","Y","Z">>
LowerCase == <<"a","b","c","d","e","f","g","h","i","j","k","l","m",
               "n","o","p","q","r","s","t","u","v","w","x","y","z">>
Digits == <<"0","1","2","3","4","5","6","7","8","9">>

Range(f) == {f[i] : i \in DOMAIN f}

\* Code points in increasing order (ord): the order str comparison uses.
CodePointOrder ==
    <<"\t", "\n", " ", "!", "\"", "%", "(", ")", ",", ".", "/">> \o Digits
    \o <<":", ";", "=", "@">> \o UpperCase \o <<"\\">> \o LowerCase
    \o <<"U+00B0", "U+00E9", "U+0301", "U+2103">>

Ord(c) == CHOOSE i \in DOMAIN CodePointOrder : CodePointOrder[i] = c

\* str.isspace for the characters of the model: what \s matches and strip() strips
IsSpace(c) == c \in {" ", "\n", "\t"}

\* str.isalnum: letters and digits; U+00E9 (e acute) is a letter, the degree
\* sign U+00B0, the combining acute U+0301 and DEGREE CELSIUS U+2103 are not.
IsAlnum(c) == c \in Range(UpperCase) \cup Range(LowerCase) \cup Range(Digits)
                    \cup {"U+00E9"}

\* str.lower, per character
LowerChar(c) ==
    IF c \in Range(UpperCase)
    THEN LowerCase[CHOOSE i \in DOMAIN UpperCase : UpperCase[i] = c]
    ELSE c

\* unicodedata.normalize("NFKD", .), per character
NFKDChar(c) ==
    CASE c = "U+00E9" -> <<"e", "U+0301">>
      [] c = "U+2103" -> <<"U+00B0", "C">>
      [] OTHER -> <<c>>

---------------------------------------------------------------------------
(* Sequence helpers *)

HasAt(s, i, w) ==
    /\ i >= 1
    /\ i + Len(w) - 1 <= Len(s)
    /\ \A j \in 1..Len(w) : s[i + j - 1] = w[j]

\* `w in s`
Contains(s, w) == \E i \in 1..Len(s) : HasAt(s, i, w)

\* index of the first character at or after i that is not whitespace (\s*)
RECURSIVE SkipSpaces(_, _)
SkipSpaces(s, i) ==
    IF i <= Len(s) /\ IsSpace(s[i]) THEN SkipSpaces(s, i + 1) ELSE i

\* index just after the longest run of (?:[^"\\]|\\.) starting at i; the
\* alternatives exclude each other on their first character, so the run the
\* regex ends with is this one or there is no match
RECURSIVE ScanBody(_, _)
ScanBody(s, i) ==
    IF i > Len(s) THEN i
    ELSE IF s[i] = Quote THEN i
    ELSE IF s[i] = Backslash
         THEN IF i + 1 <= Len(s) /\ s[i + 1] # LF THEN ScanBody(s, i + 2) ELSE i
    ELSE ScanBody(s, i + 1)

CharAt(s, i) == IF i >= 1 /\ i <= Len(s) THEN s[i] ELSE "<eof>"

\* str.strip(): whitespace off both ends
RECURSIVE StripSpaces(_)
StripSpaces(s) ==
    IF s = <<>> THEN s
    ELSE IF IsSpace(s[1]) THEN StripSpaces(Tail(s))
    ELSE IF IsSpace(s[Len(s)]) THEN StripSpaces(SubSeq(s, 1, Len(s) - 1))
    ELSE s

\* str.strip("."): dots off both ends
RECURSIVE StripDots(_)
StripDots(s) ==
    IF s = <<>> THEN s
    ELSE IF s[1] = "." THEN StripDots(Tail(s))
    ELSE IF s[Len(s)] = "." THEN StripDots(SubSeq(s, 1, Len(s) - 1))
    ELSE s

\* str(i) for i >= 0
RECURSIVE IntToStr(_)
IntToStr(i) ==
    IF i < 10 THEN <<Digits[i + 1]>>
    ELSE IntToStr(i \div 10) \o <<Digits[(i % 10) + 1]>>

\* a < b for str
RECURSIVE LexLess(_, _)
LexLess(a, b) ==
    IF b = <<>> THEN FALSE
    ELSE IF a = <<>> THEN TRUE
    ELSE IF a[1] = b[1] THEN LexLess(Tail(a), Tail(b))
    ELSE Ord(a[1]) < Ord(b[1])

\* sorted(S)
RECURSIVE Sorted(_)
Sorted(S) ==
    IF S = {} THEN <<>>
    ELSE LET m == CHOOSE x \in S : \A y \in S \ {x} : LexLess(x, y)
         IN <<m>> \o Sorted(S \ {m})

\* dicts
EmptyMap == [k \in {} |-> <<>>]
Put(m, k, v) == [x \in DOMAIN m \cup {k} |-> IF x = k THEN v ELSE m[x]]
SetDefault(m, k, v) == IF k \in DOMAIN m THEN m ELSE Put(m, k, v)

---------------------------------------------------------------------------
(* Literal escaping codec *)

\* raw.encode('utf-8').decode('unicode_escape') on ASCII text whose escapes are
\* among \" \\ \' \n \t or are unknown to the codec: an unknown escape, such as
\* Swift's \( , keeps its backslash.
RECURSIVE UnicodeEscapeDecode(_)
UnicodeEscapeDecode(raw) ==
    IF raw = <<>> THEN <<>>
    ELSE IF raw[1] = Backslash /\ Len(raw) >= 2
    THEN (CASE raw[2] = Quote -> <<Quote>>
            [] raw[2] = Backslash -> <<Backslash>>
            [] raw[2] = "'" -> <<"'">>
            [] raw[2] = "n" -> <<LF>>
            [] raw[2] = "t" -> <<"\t">>
            [] OTHER -> <<Backslash, raw[2]>>)
         \o UnicodeEscapeDecode(SubSeq(raw, 3, Len(raw)))
    ELSE <<raw[1]>> \o UnicodeEscapeDecode(Tail(raw))

\* s.replace(c, w)
RECURSIVE ReplaceChar(_, _, _)
ReplaceChar(s, c, w) ==
    IF s = <<>> THEN <<>>
    ELSE (IF s[1] = c THEN w ELSE <<s[1]>>) \o ReplaceChar(Tail(s), c, w)

escape_for_strings(s) ==
    ReplaceChar(ReplaceChar(s, Backslash, <<Backslash, Backslash>>),
                Quote, <<Backslash, Quote>>)

---------------------------------------------------------------------------
(* Key slugifier *)

\* s.lower()
Lower(s) == [i \in 1..Len(s) |-> LowerChar(s[i])]

\* unicodedata.normalize("NFKD", s[lo..hi]): the characters' decompositions
\* in order (no two characters of the model compose or reorder)
RECURSIVE NFKDRange(_, _, _)
NFKDRange(s, lo, hi) ==
    IF lo > hi THEN <<>>
    ELSE IF lo = hi THEN NFKDChar(s[lo])
    ELSE LET mid == (lo + hi) \div 2
         IN NFKDRange(s, lo, mid) \o NFKDRange(s, mid + 1, hi)

NFKD(s) == NFKDRange(s, 1, Len(s))

\* what the pass of the for loop of slugify_key on s[i] appends to out.
\* Every pass sets prev_dot: to FALSE on an alphanumeric character and to
\* TRUE on any other, so prev_dot at s[i] is TRUE exactly when i > 1 and
\* s[i-1] is not alphanumeric (it is FALSE before the loop).
SlugEmit(s, i) ==
    IF IsAlnum(s[i]) THEN <<s[i]>>
    ELSE IF ~(i > 1 /\ ~IsAlnum(s[i - 1])) THEN <<".">>
    ELSE <<>>

\* out after the for loop of slugify_key over s[lo..hi]
RECURSIVE SlugLoop(_, _, _)
SlugLoop(s, lo, hi) ==
    IF lo > hi THEN <<>>
    ELSE IF lo = hi THEN SlugEmit(s, lo)
    ELSE LET mid == (lo + hi) \div 2
         IN SlugLoop(s, lo, mid) \o SlugLoop(s, mid + 1, hi)

\* the cut without the strip(".") after it
SlugCut_NoStrip(k) ==
    IF Len(k) > MaxKeyLen THEN SubSeq(k, 1, MaxKeyLen) ELSE k

\* if len(key) > 60: key = key[:60].strip(".")
SlugCut(k) ==
    IF Len(k) > MaxKeyLen THEN StripDots(SubSeq(k, 1, MaxKeyLen)) ELSE k

slugify_key(s) ==
    LET n == NFKD(Lower(StripSpaces(s)))
        k == StripDots(SlugLoop(n, 1, Len(n)))
    IN SlugCut(IF k = <<>> THEN <<"t", "e", "x", "t">> ELSE k)

---------------------------------------------------------------------------
(* Key uniqueness resolver *)

\* the while loop of generate_unique_key
RECURSIVE UniqueLoop(_, _, _, _)
UniqueLoop(base, keys, k, i) ==
    IF k \in keys
    THEN UniqueLoop(base, keys, base \o <<".">> \o IntToStr(i), i + 1)
    ELSE k

\* the resolver with a single test of the set instead of the loop
generate_unique_key_Once(base, keys) ==
    IF base \in keys THEN base \o <<".">> \o IntToStr(2) ELSE base

\* the resolver with the suffix counted from 1
generate_unique_key_FromOne(base, keys) == UniqueLoop(base, keys, base, 1)

generate_unique_key(base, keys) == UniqueLoop(base, keys, base, 2)

\* the skip test without the %f placeholder
should_skip_literal_NoFloat(lit) ==
    \/ Contains(lit, <<Backslash, "(">>)
    \/ Contains(lit, <<"%", "@">>)
    \/ Contains(lit, <<"%", "d">>)

should_skip_literal(lit) ==
    \/ Contains(lit, <<Backslash, "(">>)
    \/ Contains(lit, <<"%", "@">>)
    \/ Contains(lit, <<"%", "d">>)
    \/ Contains(lit, <<"%", "f">>)

---------------------------------------------------------------------------
(* Translation table store *)

\* LOC_LINE_RE.match(line): <<>> when the line is no entry, else <<k, v>>
MatchLocLine(line) ==
    LET a == SkipSpaces(line, 1)
        b == ScanBody(line, a + 1)
        c == SkipSpaces(line, b + 1)
        d == SkipSpaces(line, c + 1)
        e == ScanBody(line, d + 1)
        f == SkipSpaces(line, e + 1)
        g == SkipSpaces(line, f + 1)
    IN IF /\ CharAt(line, a) = Quote
          /\ b > a + 1
          /\ CharAt(line, b) = Quote
          /\ CharAt(line, c) = "="
          /\ CharAt(line, d) = Quote
          /\ e > d + 1
          /\ CharAt(line, e) = Quote
          /\ CharAt(line, f) = ";"
          /\ g = Len(line) + 1
       THEN <<SubSeq(line, a + 1, b - 1), SubSeq(line, d + 1, e - 1)>>
       ELSE <<>>

\* `for line in f`: the lines of a text file, each with its line break
RECURSIVE Lines(_)
Lines(text) ==
    IF text = <<>> THEN <<>>
    ELSE IF \E i \in 1..Len(text) : text[i] = LF
    THEN LET n == CHOOSE i \in 1..Len(text) :
                      text[i] = LF /\ \A j \in 1..(i - 1) : text[j] # LF
         IN <<SubSeq(text, 1, n)>> \o Lines(SubSeq(text, n + 1, Len(text)))
    ELSE <<text>>

\* the entry with val_to_key.setdefault(k, v): key and value swapped
ParseEntry_Swapped(maps, k, v) ==
    [key_to_val |-> Put(maps.key_to_val, k, v),
     val_to_key |-> SetDefault(maps.val_to_key, k, v)]

\* parse_localizable on a matching line: key_to_val[k] = v and
\* val_to_key.setdefault(v, k)
ParseEntry(maps, k, v) ==
    [key_to_val |-> Put(maps.key_to_val, k, v),
     val_to_key |-> SetDefault(maps.val_to_key, v, k)]

\* the loop of parse_localizable over the lines i.. , from the maps so far
RECURSIVE ParseLoop(_, _, _)
ParseLoop(lines, i, maps) ==
    IF i > Len(lines) THEN maps
    ELSE LET m == MatchLocLine(lines[i])
         IN IF m = <<>> THEN ParseLoop(lines, i + 1, maps)
            ELSE ParseLoop(lines, i + 1, ParseEntry(maps, m[1], m[2]))

parse_localizable(file) ==
    IF file = None
    THEN [key_to_val |-> EmptyMap, val_to_key |-> EmptyMap]
    ELSE ParseLoop(Lines(file), 1, [key_to_val |-> EmptyMap, val_to_key |-> EmptyMap])

\* one line written by write_strings
EntryLine(k, v) ==
    <<Quote>> \o escape_for_strings(k) \o <<Quote, " ", "=", " ", Quote>>
    \o escape_for_strings(v) \o <<Quote, ";", LF>>

\* the for loop of write_strings over the keys ks[i..]
RECURSIVE WriteLoop(_, _, _)
WriteLoop(ks, i, adds) ==
    IF i > Len(ks) THEN <<>>
    ELSE EntryLine(ks[i], adds[ks[i]]) \o WriteLoop(ks, i + 1, adds)

\* the keys in descending order
WriteOrder_Descending(adds) ==
    LET up == Sorted(DOMAIN adds)
    IN [i \in 1..Len(up) |-> up[Len(up) + 1 - i]]

\* the order write_strings writes the keys in
WriteOrder(adds) == Sorted(DOMAIN adds)

\* what write_strings writes first
Separator(file) == IF Len(file) > 0 THEN <<LF>> ELSE <<>>

\* the content of the file at path after write_strings(path, _, adds)
write_strings(file, adds) ==
    IF DOMAIN adds = {} THEN file
    ELSE file \o Separator(file) \o WriteLoop(WriteOrder(adds), 1, adds)

---------------------------------------------------------------------------
(* Literal rewrite engine *)

TextOpen == <<"T", "e", "x", "t", "(">>
LocalizedMarker == <<".", "l", "o", "c", "a", "l", "i", "z", "e", "d">>

\* (?!\s*\.localized) at index i
NotLocalized(s, i) == ~HasAt(s, SkipSpaces(s, i), LocalizedMarker)

\* TEXT_CALL_RE matched at index i of s: [ok, g1, g2, end] where group(1) is
\* s[g1..g2] and the match is s[i..end-1]
MatchTextCall(s, i) ==
    LET a == SkipSpaces(s, i + Len(TextOpen))
        b == ScanBody(s, a + 1)
        c == SkipSpaces(s, b + 1)
    IN IF /\ HasAt(s, i, TextOpen)
          /\ CharAt(s, a) = Quote
          /\ b > a + 1
          /\ CharAt(s, b) = Quote
          /\ CharAt(s, c) = ")"
          /\ NotLocalized(s, c + 1)
       THEN [ok |-> TRUE, g1 |-> a + 1, g2 |-> b - 1, end |-> c + 1]
       ELSE [ok |-> FALSE, g1 |-> 0, g2 |-> 0, end |-> 0]

\* re search from index i: the index of the leftmost match, 0 when there is none
FindMatch(s, i) ==
    LET found == {p \in i..Len(s) : MatchTextCall(s, p).ok}
    IN IF found = {} THEN 0
       ELSE CHOOSE p \in found : \A q \in found : p <= q

\* the replacement without the .localized marker
Replacement_Unmarked(k) == TextOpen \o <<Quote>> \o k \o <<Quote, ")">>

\* f'Text("{key}".localized)'
Replacement(k) == TextOpen \o <<Quote>> \o k \o <<Quote>> \o LocalizedMarker \o <<")">>

\* repl(m) for the match of group(1) = raw and group(0) = whole, under the
\* lookups vk and the key set keys and additions adds:
\* the state after the callback and the text it returns
repl(raw, whole, vk, keys, adds) ==
    LET lit == UnicodeEscapeDecode(raw)
        base == slugify_key(lit)
        nk == generate_unique_key(base, keys)
    IN IF should_skip_literal(lit)
       THEN [branch |-> "skip", literal |-> lit, key |-> <<>>, text |-> whole,
             existing_keys |-> keys, additions |-> adds]
       ELSE IF lit \in DOMAIN vk
       THEN [branch |-> "reuse", literal |-> lit, key |-> vk[lit],
             text |-> Replacement(vk[lit]),
             existing_keys |-> keys, additions |-> adds]
       ELSE [branch |-> "mint", literal |-> lit, key |-> nk,
             text |-> Replacement(nk),
             existing_keys |-> keys \cup {nk},
             additions |-> SetDefault(adds, nk, lit)]

---------------------------------------------------------------------------
(* Inputs: the *.swift files of the source tree and the --strings file *)

\* Text("<raw>")
Call(raw) == TextOpen \o <<Quote>> \o raw \o <<Quote, ")">>

\* "<k>" = "<v>";
Entry(k, v) == <<Quote>> \o k \o <<Quote, " ", "=", " ", Quote>> \o v \o <<Quote, ";">>

wSave == <<"S", "a", "v", "e">>
wsave == <<"s", "a", "v", "e">>
wSave2 == <<"S", "a", "v", "e", " ", "2">>
wCancel == <<"C", "a", "n", "c", "e", "l">>
wHiThere == <<"H", "i", " ", "t", "h", "e", "r", "e">>
wEscQuote == <<"a", Backslash, Quote, "b">>
wEscNewline == <<"a", Backslash, "n", "b">>
wFormatD == <<"n", ":", " ", "%", "d">>
wFormatAt == <<"x", "%", "@">>
wFormatF == <<"%", "f">>
wInterp == <<"W", " ", Backslash, "(", "n", ")">>
wSichern == <<"S", "i", "c", "h", "e", "r", "n">>

FileSaveSaveCancel == Call(wSave) \o <<LF>> \o Call(wSave) \o <<LF>> \o Call(wCancel)
FileCollideReuse ==
    Call(wsave) \o <<" ">> \o TextOpen \o <<" ", Quote>> \o wSave2 \o <<Quote, " ", ")">>
    \o Call(wFormatAt) \o Call(wHiThere) \o Call(wEscQuote)
FileMixed ==
    Call(wSave) \o LocalizedMarker \o <<" ">> \o Call(wFormatD) \o <<" ">>
    \o Call(wInterp) \o Call(wFormatF) \o Call(wEscNewline)
FileNested == TextOpen \o <<Quote, "a", "b", " ">> \o Call(wSave) \o <<Quote, ")">>
FilePlain == <<"x", " ", "=", " ", "1">>

FilePool == {FileSaveSaveCancel, FileCollideReuse, FileMixed, FileNested, FilePlain}

TableEscaped == Entry(wsave, wSichern) \o <<LF>> \o Entry(<<"q">>, wEscQuote)
TableRepeatedKey == Entry(<<"k">>, wSave) \o <<LF>> \o Entry(<<"k">>, wCancel) \o <<LF>>
TableRepeatedValue ==
    Entry(<<"k", "1">>, wSave) \o <<LF, "/", "/", " ", "c", LF, " ", " ">>
    \o <<Quote, "k", "2", Quote, "=", Quote>> \o wSave \o <<Quote, " ", ";", " ", LF>>
    \o Entry(<<"h", "e", "l", "l", "o">>, wHiThere) \o <<LF>>

TablePool == {None, TableEscaped, TableRepeatedKey, TableRepeatedValue}

SourceTrees == UNION {[1..n -> FilePool] : n \in 0..MaxFiles}

---------------------------------------------------------------------------
(* main() *)

SlugIdle == slug_in = <<>> /\ slug_key = <<>> /\ slug_pc = "idle"
UqIdle == uq_base = <<>> /\ uq_keys = {} /\ uq_key = <<>> /\ uq_pc = "idle"

\* the locals of main and of process_swift before main runs
Fresh ==
    /\ pc = "start"
    /\ out_files = <<>>
    /\ strings_out = None
    /\ key_to_val = EmptyMap
    /\ val_to_key = EmptyMap
    /\ existing_keys = {}
    /\ additions = EmptyMap
    /\ fileIdx = 0
    /\ content = <<>>
    /\ pos = 1
    /\ new_content = <<>>
    /\ literal = <<>>
    /\ key = <<>>
    /\ branch = "none"

Init ==
    /\ run = 1
    /\ arg_dry_run \in BOOLEAN
    /\ arg_write_strings \in BOOLEAN
    /\ strings_in \in TablePool
    /\ src_files \in SourceTrees
    /\ Fresh
    /\ SlugIdle
    /\ UqIdle

\* main: parse_localizable(strings_in), existing_keys = set(key_to_val.keys())
Parse ==
    /\ pc = "start"
    /\ LET t == parse_localizable(strings_in)
       IN /\ key_to_val' = t.key_to_val
          /\ val_to_key' = t.val_to_key
          /\ existing_keys' = DOMAIN t.key_to_val
    /\ pc' = "copy"
    /\ UNCHANGED <<run, arg_dry_run, arg_write_strings, strings_in, src_files,
                   out_files, strings_out, additions, fileIdx, content, pos,
                   new_content, literal, key, branch, slugVars, uqVars>>

\* main: copy_tree(src, out) unless dry_run; additions = {}
CopyTree ==
    /\ pc = "copy"
    /\ out_files' = IF arg_dry_run THEN out_files ELSE src_files
    /\ additions' = EmptyMap
    /\ pc' = "walk"
    /\ UNCHANGED <<run, arg_dry_run, arg_write_strings, strings_in, src_files,
                   strings_out, key_to_val, val_to_key, existing_keys, fileIdx,
                   content, pos, new_content, literal, key, branch, slugVars, uqVars>>

\* main: the next file has no candidate: continue
SkipFile ==
    /\ pc = "walk"
    /\ fileIdx < Len(src_files)
    /\ FindMatch(src_files[fileIdx + 1], 1) = 0
    /\ content' = src_files[fileIdx + 1]
    /\ fileIdx' = fileIdx + 1
    /\ UNCHANGED <<run, pc, arg_dry_run, arg_write_strings, strings_in, src_files,
                   out_files, strings_out, key_to_val, val_to_key, existing_keys,
                   additions, pos, new_content, literal, key, branch,
                   slugVars, uqVars>>

\* main: the next file has candidates: process_swift is called, re.sub starts
BeginFile ==
    /\ pc = "walk"
    /\ fileIdx < Len(src_files)
    /\ FindMatch(src_files[fileIdx + 1], 1) # 0
    /\ content' = src_files[fileIdx + 1]
    /\ fileIdx' = fileIdx + 1
    /\ pos' = 1
    /\ new_content' = <<>>
    /\ pc' = "sub"
    /\ UNCHANGED <<run, arg_dry_run, arg_write_strings, strings_in, src_files,
                   out_files, strings_out, key_to_val, val_to_key, existing_keys,
                   additions, literal, key, branch, slugVars, uqVars>>

\* re.sub finds the next occurrence and calls repl on it
Repl ==
    /\ pc = "sub"
    /\ LET p == FindMatch(content, pos)
           m == MatchTextCall(content, p)
           r == repl(SubSeq(content, m.g1, m.g2), SubSeq(content, p, m.end - 1),
                     val_to_key, existing_keys, additions)
       IN /\ p # 0
          /\ new_content' = new_content \o SubSeq(content, pos, p - 1) \o r.text
          /\ pos' = m.end
          /\ existing_keys' = r.existing_keys
          /\ additions' = r.additions
          /\ literal' = r.literal
          /\ key' = r.key
          /\ branch' = r.branch
    /\ UNCHANGED <<run, pc, arg_dry_run, arg_write_strings, strings_in, src_files,
                   out_files, strings_out, key_to_val, val_to_key, fileIdx,
                   content, slugVars, uqVars>>

\* re.sub finds no further occurrence: process_swift returns new_content
EndSub ==
    /\ pc = "sub"
    /\ FindMatch(content, pos) = 0
    /\ new_content' = new_content \o SubSeq(content, pos, Len(content))
    /\ pos' = Len(content) + 1
    /\ branch' = "none"
    /\ pc' = "processed"
    /\ UNCHANGED <<run, arg_dry_run, arg_write_strings, strings_in, src_files,
                   out_files, strings_out, key_to_val, val_to_key, existing_keys,
                   additions, fileIdx, content, literal, key, slugVars, uqVars>>

\* main: a changed file is written to the output tree unless dry_run
WriteOut ==
    /\ pc = "processed"
    /\ out_files' = IF new_content # content /\ ~arg_dry_run
                    THEN [out_files EXCEPT ![fileIdx] = new_content]
                    ELSE out_files
    /\ pc' = "walk"
    /\ UNCHANGED <<run, arg_dry_run, arg_write_strings, strings_in, src_files,
                   strings_out, key_to_val, val_to_key, existing_keys, additions,
                   fileIdx, content, pos, new_content, literal, key, branch,
                   slugVars, uqVars>>

\* main: after the walk, the strings file of the output tree is the copy of
\* the input strings file, or a new empty file
EndWalk ==
    /\ pc = "walk"
    /\ fileIdx = Len(src_files)
    /\ IF arg_write_strings /\ ~arg_dry_run
       THEN /\ strings_out' = IF strings_in # None THEN strings_in ELSE <<>>
            /\ pc' = "write"
       ELSE /\ strings_out' = strings_out
            /\ pc' = "done"
    /\ UNCHANGED <<run, arg_dry_run, arg_write_strings, strings_in, src_files,
                   out_files, key_to_val, val_to_key, existing_keys, additions,
                   fileIdx, content, pos, new_content, literal, key, branch,
                   slugVars, uqVars>>

\* main: write_strings(strings_out_path, key_to_val, additions)
WriteStrings ==
    /\ pc = "write"
    /\ strings_out' = write_strings(strings_out, additions)
    /\ pc' = "done"
    /\ UNCHANGED <<run, arg_dry_run, arg_write_strings, strings_in, src_files,
                   out_files, key_to_val, val_to_key, existing_keys, additions,
                   fileIdx, content, pos, new_content, literal, key, branch,
                   slugVars, uqVars>>

\* main is run again, with --src the output tree of the first run and
\* --strings the strings file the first run wrote
Rerun ==
    /\ pc = "done"
    /\ run = 1
    /\ ~arg_dry_run
    /\ arg_write_strings
    /\ run' = 2
    /\ src_files' = out_files
    /\ strings_in' = strings_out
    /\ pc' = "start"
    /\ out_files' = <<>>
    /\ strings_out' = None
    /\ key_to_val' = EmptyMap
    /\ val_to_key' = EmptyMap
    /\ existing_keys' = {}
    /\ additions' = EmptyMap
    /\ fileIdx' = 0
    /\ content' = <<>>
    /\ pos' = 1
    /\ new_content' = <<>>
    /\ literal' = <<>>
    /\ key' = <<>>
    /\ branch' = "none"
    /\ UNCHANGED <<arg_dry_run, arg_write_strings, slugVars, uqVars>>

Next ==
    \/ Parse
    \/ CopyTree
    \/ SkipFile
    \/ BeginFile
    \/ Repl
    \/ EndSub
    \/ WriteOut
    \/ EndWalk
    \/ WriteStrings
    \/ Rerun

Spec == Init /\ [][Next]_vars

---------------------------------------------------------------------------
(* slugify_key as a function of its argument *)

MainIdle ==
    /\ run = 0
    /\ pc = "idle"
    /\ arg_dry_run = FALSE
    /\ arg_write_strings = FALSE
    /\ strings_in = None
    /\ src_files = <<>>
    /\ out_files = <<>>
    /\ strings_out = None
    /\ key_to_val = EmptyMap
    /\ val_to_key = EmptyMap
    /\ existing_keys = {}
    /\ additions = EmptyMap
    /\ fileIdx = 0
    /\ content = <<>>
    /\ pos = 1
    /\ new_content = <<>>
    /\ literal = <<>>
    /\ key = <<>>
    /\ branch = "none"

\* the argument: up to MaxFree characters of SlugAlphabet, then up to
\* MaxBlocks copies of SlugBlock
SlugAlphabet == {"a", "B", "7", " ", "!", ".", "U+00E9", "U+2103"}
SlugBlock == <<"a", "b", "c", "d", "e", "f", "g", "h", "i", " ">>

SlugInit ==
    /\ slug_in = <<>>
    /\ slug_key = <<>>
    /\ slug_pc = "build"
    /\ MainIdle
    /\ UqIdle

SlugAppendChar ==
    /\ slug_pc = "build"
    /\ Len(slug_in) < MaxFree
    /\ \E c \in SlugAlphabet : slug_in' = Append(slug_in, c)
    /\ UNCHANGED <<slug_key, slug_pc, mainVars, uqVars>>

SlugAppendBlock ==
    /\ slug_pc = "build"
    /\ Len(slug_in) + Len(SlugBlock) <= MaxFree + MaxBlocks * Len(SlugBlock)
    /\ slug_in' = slug_in \o SlugBlock
    /\ UNCHANGED <<slug_key, slug_pc, mainVars, uqVars>>

SlugApply ==
    /\ slug_pc = "build"
    /\ slug_key' = slugify_key(slug_in)
    /\ slug_pc' = "done"
    /\ UNCHANGED <<slug_in, mainVars, uqVars>>

SlugNext ==
    \/ SlugAppendChar
    \/ SlugAppendBlock
    \/ SlugApply

SlugSpec == SlugInit /\ [][SlugNext]_vars

---------------------------------------------------------------------------
(* generate_unique_key as a function of its arguments *)

kA == <<"a">>
kB == <<"b">>

\* base.n
Suffixed(base, n) == base \o <<".">> \o IntToStr(n)

UqKeyPool ==
    {kA, kB, Suffixed(Suffixed(kA, 2), 2)} \cup {Suffixed(kA, n) : n \in 2..MaxSuffix}
UqBasePool == {kA, kB, Suffixed(kA, 2)}

UqInit ==
    /\ uq_base \in UqBasePool
    /\ uq_keys \in SUBSET UqKeyPool
    /\ uq_key = <<>>
    /\ uq_pc = "build"
    /\ MainIdle
    /\ SlugIdle

UqApply ==
    /\ uq_pc = "build"
    /\ uq_key' = generate_unique_key(uq_base, uq_keys)
    /\ uq_pc' = "done"
    /\ UNCHANGED <<uq_base, uq_keys, mainVars, slugVars>>

UqNext == UqApply

UqSpec == UqInit /\ [][UqNext]_vars

---------------------------------------------------------------------------
(* Properties *)

\* the step is one call of repl by re.sub
ReplStep == pc = "sub" /\ pc' = "sub" /\ pos' # pos

\* the literal holds the interpolation marker \( or one of %@ %d %f
HasMarker(lit) ==
    \E i \in 1..(Len(lit) - 1) :
        \/ lit[i] = Backslash /\ lit[i + 1] = "("
        \/ lit[i] = "%" /\ lit[i + 1] \in {"@", "d", "f"}

\* C1: every key minted in a run is new: it is no key of the parsed table and
\* no key minted before, it joins existing_keys and additions with the
\* literal's value, and existing_keys is exactly the table's keys plus the
\* keys of additions.
C1_KeyUniqueness ==
    [][/\ existing_keys' = DOMAIN key_to_val' \cup DOMAIN additions'
       /\ (ReplStep /\ branch' = "mint") =>
              /\ key' \notin existing_keys
              /\ key' \notin DOMAIN key_to_val
              /\ key' \notin DOMAIN additions
              /\ existing_keys' = existing_keys \cup {key'}
              /\ DOMAIN additions' = DOMAIN additions \cup {key'}
              /\ additions'[key'] = literal']_vars

\* a key was minted in the second file, by suffixing, against a parsed table
C1_Witness ==
    /\ branch = "mint"
    /\ fileIdx = 2
    /\ DOMAIN key_to_val # {}
    /\ key # slugify_key(literal)
    /\ Cardinality(DOMAIN additions) >= 3

\* C2: with no existing table, the additions made while the first file is
\* rewritten hold one entry per distinct literal value: no value has two keys.
C2_SameValueSameKey ==
    (run = 1 /\ strings_in = None /\ fileIdx <= 1) =>
        \A k1, k2 \in DOMAIN additions :
            additions[k1] = additions[k2] => k1 = k2

\* the entries of a table file, in file order, as <<key, value>> of raw texts
RECURSIVE EntriesOf(_, _)
EntriesOf(lines, i) ==
    IF i > Len(lines) THEN <<>>
    ELSE (IF MatchLocLine(lines[i]) = <<>> THEN <<>> ELSE <<MatchLocLine(lines[i])>>)
         \o EntriesOf(lines, i + 1)

TableEntries(file) == IF file = None THEN <<>> ELSE EntriesOf(Lines(file), 1)

\* the logical text of a quoted span of the table grammar: \" is " and \\ is \
RECURSIVE TableUnescape(_)
TableUnescape(raw) ==
    IF raw = <<>> THEN <<>>
    ELSE IF raw[1] = Backslash /\ Len(raw) >= 2 /\ raw[2] \in {Quote, Backslash}
    THEN <<raw[2]>> \o TableUnescape(SubSeq(raw, 3, Len(raw)))
    ELSE <<raw[1]>> \o TableUnescape(Tail(raw))

\* the key of the first entry of the table whose value is v
FirstKeyOf(entries, v) ==
    LET n == CHOOSE i \in 1..Len(entries) :
                 /\ TableUnescape(entries[i][2]) = v
                 /\ \A j \in 1..(i - 1) : TableUnescape(entries[j][2]) # v
    IN entries[n][1]

\* C3: an occurrence that is not skipped and whose decoded literal is the
\* value of an entry of the input table is rewritten to the first key of
\* that value, and no key is minted for it.
C3_ValueReuse ==
    LET entries == TableEntries(strings_in)
    IN (/\ branch \in {"reuse", "mint"}
        /\ \E i \in 1..Len(entries) : TableUnescape(entries[i][2]) = literal)
       => (branch = "reuse" /\ key = FirstKeyOf(entries, literal))

\* C4: the run on the first run's output, with the strings file the first
\* run wrote, matches no rewritten occurrence, returns every text as it was
\* and adds no entry.
C4_Idempotent ==
    run = 2 =>
        /\ DOMAIN additions = {}
        /\ branch \in {"none", "skip"}
        /\ pc = "processed" => new_content = content
        /\ pc \in {"walk", "write", "done"} => out_files = src_files

\* the second run has gone through a file that holds a rewritten occurrence
\* next to a skipped one
C4_Witness ==
    /\ run = 2
    /\ pc = "processed"
    /\ Contains(content, Replacement(wsave))
    /\ Contains(content, Call(wFormatAt))

\* C5: an occurrence whose decoded literal holds a marker is copied to the
\* output as it was, with existing_keys and additions unchanged, and no
\* added entry has a value that holds a marker.
C5_SkipSafety ==
    [][/\ (ReplStep /\ HasMarker(literal')) =>
              /\ new_content' = new_content \o SubSeq(content, pos, pos' - 1)
              /\ existing_keys' = existing_keys
              /\ additions' = additions
       /\ \A k \in DOMAIN additions' : ~HasMarker(additions'[k])]_vars

\* an interpolated literal was skipped after keys had been added
C5_Witness ==
    /\ branch = "skip"
    /\ Contains(literal, <<Backslash, "(">>)
    /\ DOMAIN additions # {}

\* the text is the entry lines of the keys ks in ascending order of key
RECURSIVE AscendingEntries(_, _, _)
AscendingEntries(text, ks, adds) ==
    IF ks = {} THEN text = <<>>
    ELSE LET k == CHOOSE x \in ks : \A y \in ks : x = y \/ LexLess(x, y)
             line == EntryLine(k, adds[k])
         IN /\ HasAt(text, 1, line)
            /\ AscendingEntries(SubSeq(text, Len(line) + 1, Len(text)),
                                ks \ {k}, adds)

SlugShape(k) ==
    /\ k # <<>>
    /\ Len(k) <= 60
    /\ k[1] # "."
    /\ k[Len(k)] # "."
    /\ \A i \in 1..Len(k) : k[i] = "." \/ IsAlnum(k[i])
    /\ \A i \in 1..(Len(k) - 1) : ~(k[i] = "." /\ k[i + 1] = ".")

NoAlnum(s) == \A i \in 1..Len(s) : ~IsAlnum(s[i])

kText == <<"t", "e", "x", "t">>

Decimal(n) ==
    IF n < 10 THEN <<Digits[n + 1]>>
    ELSE <<Digits[(n \div 10) + 1], Digits[(n % 10) + 1]>>

\* C8: the result is base when base is free, else base.n for the least
\* n >= 2 with base.n free; the result is never a key of existing_keys.
C8_UniqueKey ==
    uq_pc = "done" =>
        /\ uq_key \notin uq_keys
        /\ uq_base \notin uq_keys => uq_key = uq_base
        /\ uq_base \in uq_keys =>
               \E n \in 2..(Cardinality(uq_keys) + 2) :
                   /\ uq_key = uq_base \o <<".">> \o Decimal(n)
                   /\ \A m \in 2..(n - 1) :
                          (uq_base \o <<".">> \o Decimal(m)) \in uq_keys

\* the resolver went past every suffix up to MaxSuffix
C8_Witness ==
    /\ uq_pc = "done"
    /\ uq_base = kA
    /\ uq_key = kA \o <<".">> \o Decimal(MaxSuffix + 1)

\* the lookups agree: every value -> key of val_to_key is a key -> value of
\* key_to_val, and a reused key is mapped to the literal by the table
LookupsAgree ==
    /\ \A v \in DOMAIN val_to_key :
           /\ val_to_key[v] \in DOMAIN key_to_val
           /\ key_to_val[val_to_key[v]] = v
    /\ branch = "reuse" =>
           /\ key \in DOMAIN key_to_val
           /\ key_to_val[key] = literal

\* the table file has no two entries with the same key
NoRepeatedKey(file) ==
    LET entries == TableEntries(file)
    IN \A i, j \in 1..Len(entries) : entries[i][1] = entries[j][1] => i = j

\* C9 as stated: the lookups agree for every table file, also one that
\* repeats a key.
C9_Original == LookupsAgree

\* C9: the lookups agree for every table file that repeats no key (it may
\* repeat values).
C9_LookupsAgree == NoRepeatedKey(strings_in) => LookupsAgree

\* a key was reused for a value that the table holds twice
C9_Witness ==
    /\ strings_in = TableRepeatedValue
    /\ branch = "reuse"
    /\ literal = wSave
    /\ key = <<"k", "1">>

\* C10: the additions written to a new, empty strings file read back, with
\* parse_localizable, as the same keys with the same values.
C10_RoundTrip ==
    (/\ pc = "done"
     /\ run = 1
     /\ arg_write_strings
     /\ ~arg_dry_run
     /\ strings_in = None) =>
        parse_localizable(strings_out).key_to_val = additions

=============================================================================
